---- MODULE Spec2Model ----
(***************************************************************************)
(* A model of the realistic camera of rs_pbrt (src/cameras/realistic.rs):  *)
(* construction of the lens prescription, the two lens tracers, the focus  *)
(* calibration and the exit-pupil estimator.                               *)
(*                                                                         *)
(* Float (f32) values are fixed-point integers counting units of 1/Scale,  *)
(* together with the three non-finite values of IEEE arithmetic (NaN,      *)
(* +infinity, -infinity), which the code produces by dividing by zero.     *)
(***************************************************************************)
EXTENDS Integers, Sequences, FiniteSets, TLC

(***************************************************************************)
(* Float arithmetic                                                        *)
(***************************************************************************)

\* The element of a one-element set.  Only({e : v \in {x}}) is e with v bound
\* to the value of x: it is how a binding `let v = x;` of the code is written
\* where x is not to be evaluated afresh at every use of v.
Only(S) == CHOOSE r \in S : TRUE

\* Units per 1.0: the smallest scale in which x * 0.001 / 2 is exact for
\* whole x (realistic.rs:69-72).
Scale == 2000

MaxInt == 2147483647 + 0
PInf == 1000000000 + 0
NInf == 0 - PInf
NaN == PInf + 1

Abs(a) == IF a < 0 THEN 0 - a ELSE a
Sgn(a) == IF a < 0 THEN 0 - 1 ELSE IF a > 0 THEN 1 ELSE 0
IsNaN(a) == a = NaN
IsInf(a) == a = PInf \/ a = NInf
IsFinite(a) == ~IsNaN(a) /\ ~IsInf(a)
SignedInf(s) == IF s < 0 THEN NInf ELSE PInf

\* Integer division rounding toward zero.
TDiv(a, b) == Sgn(a) * Sgn(b) * (Abs(a) \div Abs(b))
MulOverflows(a, b) == a # 0 /\ b # 0 /\ Abs(a) > MaxInt \div Abs(b)
Saturate(v) == IF v >= PInf THEN PInf ELSE IF v <= NInf THEN NInf ELSE v

\* The literal n/d as a Float.
Lit(n, d) == TDiv(n * Scale, d)

FNeg[a \in Int] == IF IsNaN(a) THEN NaN ELSE 0 - a

FAdd[a \in Int, b \in Int] ==
    IF IsNaN(a) \/ IsNaN(b) THEN NaN
    ELSE IF IsInf(a) /\ IsInf(b) THEN (IF a = b THEN a ELSE NaN)
    ELSE IF IsInf(a) THEN a
    ELSE IF IsInf(b) THEN b
    ELSE Saturate(a + b)

FSub[a \in Int, b \in Int] == FAdd[a, FNeg[b]]

FMul[a \in Int, b \in Int] ==
    IF IsNaN(a) \/ IsNaN(b) THEN NaN
    ELSE IF IsInf(a) \/ IsInf(b)
         THEN (IF a = 0 \/ b = 0 THEN NaN ELSE SignedInf(Sgn(a) * Sgn(b)))
    ELSE IF MulOverflows(a, b) THEN SignedInf(Sgn(a) * Sgn(b))
    ELSE TDiv(a * b, Scale)

FDiv[a \in Int, b \in Int] ==
    IF IsNaN(a) \/ IsNaN(b) THEN NaN
    ELSE IF IsInf(a) THEN (IF IsInf(b) THEN NaN
                           ELSE SignedInf(Sgn(a) * (IF b < 0 THEN 0 - 1 ELSE 1)))
    ELSE IF IsInf(b) THEN 0
    ELSE IF b = 0 THEN (IF a = 0 THEN NaN ELSE SignedInf(Sgn(a)))
    ELSE IF MulOverflows(a, Scale)
         THEN (IF MulOverflows(TDiv(a, b), Scale)
               THEN SignedInf(Sgn(a) * Sgn(b))
               ELSE TDiv(a, b) * Scale)
    ELSE TDiv(a * Scale, b)

\* Comparisons: every comparison with NaN is false.
FLt[a \in Int, b \in Int] == ~IsNaN(a) /\ ~IsNaN(b) /\ a < b
FGt[a \in Int, b \in Int] == FLt[b, a]
FLe[a \in Int, b \in Int] == ~IsNaN(a) /\ ~IsNaN(b) /\ a <= b
FGe[a \in Int, b \in Int] == FLe[b, a]
FEq[a \in Int, b \in Int] == ~IsNaN(a) /\ ~IsNaN(b) /\ a = b

\* f32::min and f32::max: a NaN operand is ignored.
FMin[a \in Int, b \in Int] == IF IsNaN(a) THEN b ELSE IF IsNaN(b) THEN a ELSE IF a < b THEN a ELSE b
FMax[a \in Int, b \in Int] == IF IsNaN(a) THEN b ELSE IF IsNaN(b) THEN a ELSE IF a > b THEN a ELSE b

RECURSIVE IsqrtIn(_, _, _)
IsqrtIn(n, lo, hi) ==
    IF lo >= hi THEN lo
    ELSE LET mid == (lo + hi + 1) \div 2
         IN  IF mid <= n \div mid THEN IsqrtIn(n, mid, hi) ELSE IsqrtIn(n, lo, mid - 1)

\* The integer square root: the largest r with r * r <= n.
Isqrt(n) == IF n <= 0 THEN 0 ELSE IsqrtIn(n, 1, IF n < 46340 THEN n ELSE 46340)

FSqrt[a \in Int] ==
    IF IsNaN(a) \/ a < 0 THEN NaN
    ELSE IF a = PInf THEN PInf
    ELSE IF MulOverflows(a, Scale) THEN Isqrt(a \div Scale) * Scale
    ELSE Isqrt(a * Scale)

(***************************************************************************)
(* Vectors, points and rays                                                *)
(***************************************************************************)

Vec(x, y, z) == [x |-> x, y |-> y, z |-> z]
Vecs == [x : Int, y : Int, z : Int]
VAdd[a \in Vecs, b \in Vecs] == Vec(FAdd[a.x, b.x], FAdd[a.y, b.y], FAdd[a.z, b.z])
VSub[a \in Vecs, b \in Vecs] == Vec(FSub[a.x, b.x], FSub[a.y, b.y], FSub[a.z, b.z])
VNeg[a \in Vecs] == Vec(FNeg[a.x], FNeg[a.y], FNeg[a.z])
VScale[a \in Vecs, s \in Int] == Vec(FMul[a.x, s], FMul[a.y, s], FMul[a.z, s])
VOver[a \in Vecs, s \in Int] == Vec(FDiv[a.x, s], FDiv[a.y, s], FDiv[a.z, s])
VDot[a \in Vecs, b \in Vecs] == FAdd[FAdd[FMul[a.x, b.x], FMul[a.y, b.y]], FMul[a.z, b.z]]
VLength[a \in Vecs] == FSqrt[VDot[a, a]]
VNormalize[a \in Vecs] == VOver[a, VLength[a]]

Ray(o, d) == [o |-> o, d |-> d]
Rays == [o : Vecs, d : Vecs]
\* Ray::position
Position[r \in Rays, t \in Int] == VAdd[r.o, VScale[r.d, t]]
\* Transform::scale(1, 1, -1).transform_ray
FlipZ[r \in Rays] == Ray(Vec(r.o.x, r.o.y, FNeg[r.o.z]), Vec(r.d.x, r.d.y, FNeg[r.d.z]))

(***************************************************************************)
(* Helpers of the renderer core that the camera calls                      *)
(***************************************************************************)

\* core::pbrt::lerp
Lerp[t \in Int, a \in Int, b \in Int] == FAdd[FMul[FSub[Lit(1, 1), t], a], FMul[t, b]]

\* core::pbrt::quadratic: the roots of a t^2 + b t + c, smaller first.
Quadratic(a, b, c) ==
    Only({ IF FLt[discrim, 0] THEN [ok |-> FALSE, t0 |-> 0, t1 |-> 0]
           ELSE Only({ Only({ IF FGt[t0, t1] THEN [ok |-> TRUE, t0 |-> t1, t1 |-> t0]
                              ELSE [ok |-> TRUE, t0 |-> t0, t1 |-> t1]
                              : t0 \in {FDiv[q, a]}, t1 \in {FDiv[c, q]} })
                       : q \in {LET root_discrim == FSqrt[discrim]
                                IN  IF FLt[b, 0]
                                    THEN FMul[FNeg[Lit(1, 2)], FSub[b, root_discrim]]
                                    ELSE FMul[FNeg[Lit(1, 2)], FAdd[b, root_discrim]]} })
           : discrim \in {FSub[FMul[b, b], FMul[FMul[Lit(4, 1), a], c]]} })

\* core::geometry::nrm_faceforward_vec3
FaceForward[n \in Vecs, v \in Vecs] == IF FLt[VDot[n, v], 0] THEN VNeg[n] ELSE n

\* core::reflection::refract (Snell's law; no result on total internal
\* reflection).
Refract(wi, n, eta) ==
    Only({ Only({ IF FGe[sin2_theta_t, Lit(1, 1)] THEN [ok |-> FALSE, wt |-> Vec(0, 0, 0)]
                  ELSE [ok |-> TRUE,
                        wt |-> VAdd[VScale[VNeg[wi], eta],
                                    VScale[n, FSub[FMul[eta, cos_theta_i],
                                                   FSqrt[FSub[Lit(1, 1), sin2_theta_t]]]]]]
                  : sin2_theta_t \in
                        {FMul[FMul[eta, eta],
                              FMax[0, FSub[Lit(1, 1), FMul[cos_theta_i, cos_theta_i]]]]} })
           : cos_theta_i \in {VDot[n, wi]} })

RECURSIVE RadicalDigits(_, _, _, _)
RadicalDigits(base, a, num, den) ==
    IF a = 0 THEN Lit(num, den)
    ELSE RadicalDigits(base, a \div base, (num * base) + (a % base), den * base)

\* core::lowdiscrepancy::radical_inverse: base_index 0 is base 2, 1 is base 3.
RadicalInverse(base_index, a) == RadicalDigits(IF base_index = 0 THEN 2 ELSE 3, a, 0, 1)

Pnt2(x, y) == [x |-> x, y |-> y]
Bnd2(p_min, p_max) == [p_min |-> p_min, p_max |-> p_max]
\* Bounds2f::default(): the empty box.
Bounds2fDefault == Bnd2(Pnt2(PInf, PInf), Pnt2(NInf, NInf))
\* core::geometry::pnt2_inside_bnd2
Pnt2InsideBnd2(pt, b) ==
    /\ FGe[pt.x, b.p_min.x] /\ FLe[pt.x, b.p_max.x]
    /\ FGe[pt.y, b.p_min.y] /\ FLe[pt.y, b.p_max.y]
\* core::geometry::bnd2_union_pnt2
Bnd2UnionPnt2(b, pt) ==
    Bnd2(Pnt2(FMin[b.p_min.x, pt.x], FMin[b.p_min.y, pt.y]),
         Pnt2(FMax[b.p_max.x, pt.x], FMax[b.p_max.y, pt.y]))
\* core::geometry::bnd2_expand
Bnd2Expand(b, delta) ==
    Bnd2(Pnt2(FSub[b.p_min.x, delta], FSub[b.p_min.y, delta]),
         Pnt2(FAdd[b.p_max.x, delta], FAdd[b.p_max.y, delta]))
\* Bounds2f::diagonal().length()
Bnd2DiagonalLength(b) ==
    Only({ FSqrt[FAdd[FMul[dx, dx], FMul[dy, dy]]]
           : dx \in {FSub[b.p_max.x, b.p_min.x]}, dy \in {FSub[b.p_max.y, b.p_min.y]} })

(***************************************************************************)
(* The lens prescription                                                   *)
(***************************************************************************)

LensElementInterface(curvature_radius, thickness, eta, aperture_radius) ==
    [curvature_radius |-> curvature_radius, thickness |-> thickness,
     eta |-> eta, aperture_radius |-> aperture_radius]

\* Diameter without the clamp: a stop takes the user's aperture diameter
\* whatever the record declares.
DiameterUnclamped(lens_data, i, aperture_diameter) ==
    IF FEq[lens_data[i + 1], 0] THEN aperture_diameter ELSE lens_data[i + 4]

\* The diameter RealisticCamera::new gives the element built from the record
\* starting at (0-based) index i of lens_data.
Diameter(lens_data, i, aperture_diameter) ==
    IF FEq[lens_data[i + 1], 0]
    THEN (IF FGt[aperture_diameter, lens_data[i + 4]] THEN lens_data[i + 4]
          ELSE aperture_diameter)
    ELSE lens_data[i + 4]

\* The element RealisticCamera::new builds from that record.
NewElement(lens_data, i, aperture_diameter) ==
    LensElementInterface(
        FMul[lens_data[i + 1], Lit(1, 1000)],
        FMul[lens_data[i + 2], Lit(1, 1000)],
        lens_data[i + 3],
        FDiv[FMul[Diameter(lens_data, i, aperture_diameter), Lit(1, 1000)], Lit(2, 1)])

RECURSIVE LensFrontZFrom(_, _)
LensFrontZFrom(E, k) ==
    IF k > Len(E) THEN 0 ELSE FAdd[E[k].thickness, LensFrontZFrom(E, k + 1)]

\* lens_rear_z, lens_front_z, rear_element_radius; .last().unwrap() panics
\* on an empty prescription.
LensRearZ(E) == E[Len(E)].thickness
LensFrontZ(E) == LensFrontZFrom(E, 1)
RearElementRadius(E) == E[Len(E)].aperture_radius

(***************************************************************************)
(* Tracing                                                                 *)
(***************************************************************************)

\* intersect_spherical_element falling back on the other root when the
\* root selected is behind the ray.
IntersectSphericalElementEitherRoot(radius, z_center, ray) ==
    LET use_closer_t == FGt[ray.d.z, 0] # FLt[radius, 0]
    IN  Only({ Only({ IF ~q.ok THEN [ok |-> FALSE, t |-> 0, n |-> Vec(0, 0, 0), q |-> q]
                      ELSE Only({ IF FLt[t, 0]
                                  THEN [ok |-> FALSE, t |-> t, n |-> Vec(0, 0, 0), q |-> q]
                                  ELSE [ok |-> TRUE, t |-> t, q |-> q,
                                        n |-> FaceForward[
                                                  VNormalize[VAdd[o, VScale[ray.d, t]]],
                                                  VNeg[ray.d]]]
                                  : t \in {IF use_closer_t
                                           THEN (IF FLt[FMin[q.t0, q.t1], 0]
                                                 THEN FMax[q.t0, q.t1]
                                                 ELSE FMin[q.t0, q.t1])
                                           ELSE FMax[q.t0, q.t1]} })
                      : q \in {Quadratic(VDot[ray.d, ray.d],
                                         FMul[Lit(2, 1), VDot[ray.d, o]],
                                         FSub[VDot[o, o], FMul[radius, radius]])} })
               : o \in {VSub[ray.o, Vec(0, 0, z_center)]} })

\* intersect_spherical_element: the hit of a ray on the sphere of an element.
IntersectSphericalElement(radius, z_center, ray) ==
    LET use_closer_t == FGt[ray.d.z, 0] # FLt[radius, 0]
    IN  Only({ Only({ IF ~q.ok THEN [ok |-> FALSE, t |-> 0, n |-> Vec(0, 0, 0), q |-> q]
                      ELSE Only({ IF FLt[t, 0]
                                  THEN [ok |-> FALSE, t |-> t, n |-> Vec(0, 0, 0), q |-> q]
                                  ELSE [ok |-> TRUE, t |-> t, q |-> q,
                                        n |-> FaceForward[
                                                  VNormalize[VAdd[o, VScale[ray.d, t]]],
                                                  VNeg[ray.d]]]
                                  : t \in {IF use_closer_t THEN FMin[q.t0, q.t1]
                                           ELSE FMax[q.t0, q.t1]} })
                      : q \in {Quadratic(VDot[ray.d, ray.d],
                                         FMul[Lit(2, 1), VDot[ray.d, o]],
                                         FSub[VDot[o, o], FMul[radius, radius]])} })
               : o \in {VSub[ray.o, Vec(0, 0, z_center)]} })

\* a != b on f32: true when either is NaN.
FNe[a \in Int, b \in Int] == ~FEq[a, b]

\* One record of the trace's log: what the loop body did at element i.
\* outcome is "pass", "false" (the trace returned false) or "panic" (the
\* assertion t >= 0 failed); why names the return taken.
LogEntry(i, is_stop, element_z, t, r2, ap2, eta_i, eta_t, d_in, d_out, outcome, why) ==
    [i |-> i, is_stop |-> is_stop, element_z |-> element_z, t |-> t, r2 |-> r2,
     ap2 |-> ap2, eta_i |-> eta_i, eta_t |-> eta_t, d_in |-> d_in, d_out |-> d_out,
     outcome |-> outcome, why |-> why]

\* The state of a trace after its loop body ran once more.
Advance(E, tr, element_z, r_lens, entry) ==
    [status |-> IF entry.outcome = "pass"
                THEN (IF tr.n + 1 = Len(E) THEN "true" ELSE "run")
                ELSE entry.outcome,
     element_z |-> element_z,
     r_lens |-> r_lens,
     n |-> tr.n + 1,
     log |-> Append(tr.log, entry)]

\* Outcome with the aperture test left out at stops.
OutcomeStopUntested(is_stop, hit_ok, t, r2, ap2, refract_ok) ==
    IF ~is_stop /\ ~hit_ok THEN <<"false", "no_intersection">>
    ELSE IF ~FGe[t, 0] THEN <<"panic", "assert_t">>
    ELSE IF ~is_stop /\ FGt[r2, ap2] THEN <<"false", "vignetted">>
    ELSE IF ~is_stop /\ ~refract_ok THEN <<"false", "total_internal_reflection">>
    ELSE <<"pass", "none">>

\* The order of the checks in the loop body of both tracers, once the
\* intersection was tried.
Outcome(is_stop, hit_ok, t, r2, ap2, refract_ok) ==
    IF ~is_stop /\ ~hit_ok THEN <<"false", "no_intersection">>
    ELSE IF ~FGe[t, 0] THEN <<"panic", "assert_t">>
    ELSE IF FGt[r2, ap2] THEN <<"false", "vignetted">>
    ELSE IF ~is_stop /\ ~refract_ok THEN <<"false", "total_internal_reflection">>
    ELSE <<"pass", "none">>

\* No tracer is running.
NoTrace == [status |-> "none", element_z |-> 0, r_lens |-> Ray(Vec(0, 0, 0), Vec(0, 0, 0)),
            n |-> 0, log |-> <<>>]

\* trace_lenses_from_film before its loop.
TraceFromFilmStart(E, r_camera) ==
    [status |-> IF Len(E) = 0 THEN "true" ELSE "run",
     element_z |-> 0, r_lens |-> FlipZ[r_camera], n |-> 0, log |-> <<>>]

\* What the loop body of both tracers does at an element once t is known: the
\* assertion, the aperture test at the hit point, the refraction.
Interact(E, tr, i, element, is_stop, element_z, next_z, hit, t, eta_i, eta_t) ==
    LET r_lens == tr.r_lens
        ap2 == FMul[element.aperture_radius, element.aperture_radius]
    IN  Only({ Only({ Only({ Advance(E, tr,
                                 IF oc[1] = "pass" THEN next_z ELSE element_z,
                                 IF oc[1] = "pass"
                                 THEN Ray(p_hit, IF is_stop THEN r_lens.d ELSE rf.wt)
                                 ELSE r_lens,
                                 LogEntry(i, is_stop, element_z, t,
                                          IF oc[2] \in {"no_intersection", "assert_t"}
                                          THEN 0 ELSE r2,
                                          ap2, eta_i, eta_t, r_lens.d,
                                          IF oc[1] = "pass" /\ ~is_stop THEN rf.wt
                                          ELSE r_lens.d,
                                          oc[1], oc[2]))
                             : oc \in {Outcome(is_stop, hit.ok, t, r2, ap2, rf.ok)} })
                      : r2 \in {FAdd[FMul[p_hit.x, p_hit.x], FMul[p_hit.y, p_hit.y]]} })
               : p_hit \in {Position[r_lens, t]},
                 rf \in {IF is_stop \/ ~hit.ok THEN [ok |-> TRUE, wt |-> r_lens.d]
                         ELSE Refract(VNormalize[VNeg[r_lens.d]], hit.n,
                                      FDiv[eta_i, eta_t])} })

\* The plane of a stop: t = (element_z - r_lens.o.z) / r_lens.d.z.
StopHit(element_z, r_lens) ==
    [ok |-> TRUE, t |-> FDiv[FSub[element_z, r_lens.o.z], r_lens.d.z], n |-> Vec(0, 0, 0)]

\* FilmIteration without the test of the ray's direction at a stop.
FilmIterationUntestedStop(E, tr) ==
    LET i == Len(E) - 1 - tr.n
        element == E[i + 1]
        r_lens == tr.r_lens
        is_stop == FEq[element.curvature_radius, 0]
        eta_i == element.eta
        eta_t == IF i > 0 /\ FNe[E[i].eta, 0] THEN E[i].eta ELSE Lit(1, 1)
    IN  Only({ Only({ Interact(E, tr, i, element, is_stop, element_z, element_z,
                               hit, hit.t, eta_i, eta_t)
                      : hit \in {IF is_stop THEN StopHit(element_z, r_lens)
                                 ELSE IntersectSphericalElement(
                                          element.curvature_radius,
                                          FAdd[element_z, element.curvature_radius],
                                          r_lens)} })
               : element_z \in {FSub[tr.element_z, element.thickness]} })

\* One iteration of the loop of trace_lenses_from_film.
FilmIteration(E, tr) ==
    LET i == Len(E) - 1 - tr.n
        element == E[i + 1]
        r_lens == tr.r_lens
        is_stop == FEq[element.curvature_radius, 0]
        eta_i == element.eta
        eta_t == IF i > 0 /\ FNe[E[i].eta, 0] THEN E[i].eta ELSE Lit(1, 1)
    IN  Only({ IF is_stop /\ FGe[r_lens.d.z, 0]
               THEN Advance(E, tr, element_z, r_lens,
                            LogEntry(i, is_stop, element_z, 0, 0,
                                     FMul[element.aperture_radius, element.aperture_radius],
                                     eta_i, eta_t, r_lens.d, r_lens.d, "false",
                                     "stop_behind"))
               ELSE Only({ Interact(E, tr, i, element, is_stop, element_z, element_z,
                                    hit, hit.t, eta_i, eta_t)
                           : hit \in {IF is_stop THEN StopHit(element_z, r_lens)
                                      ELSE IntersectSphericalElement(
                                               element.curvature_radius,
                                               FAdd[element_z, element.curvature_radius],
                                               r_lens)} })
               : element_z \in {FSub[tr.element_z, element.thickness]} })

\* trace_lenses_from_scene starting at lens_front_z(), the sign left out.
TraceFromSceneStartUnnegated(E, r_camera) ==
    [status |-> IF Len(E) = 0 THEN "true" ELSE "run",
     element_z |-> LensFrontZ(E), r_lens |-> FlipZ[r_camera], n |-> 0, log |-> <<>>]

\* trace_lenses_from_scene before its loop.
TraceFromSceneStart(E, r_camera) ==
    [status |-> IF Len(E) = 0 THEN "true" ELSE "run",
     element_z |-> FNeg[LensFrontZ(E)], r_lens |-> FlipZ[r_camera], n |-> 0, log |-> <<>>]

\* One iteration of the loop of trace_lenses_from_scene.
SceneIteration(E, tr) ==
    LET i == tr.n
        element == E[i + 1]
        element_z == tr.element_z
        r_lens == tr.r_lens
        is_stop == FEq[element.curvature_radius, 0]
        eta_i == IF i = 0 \/ FEq[E[i].eta, 0] THEN Lit(1, 1) ELSE E[i].eta
        eta_t == IF FNe[element.eta, 0] THEN element.eta ELSE Lit(1, 1)
    IN  Only({ Interact(E, tr, i, element, is_stop, element_z,
                        FAdd[element_z, element.thickness], hit, hit.t, eta_i, eta_t)
               : hit \in {IF is_stop THEN StopHit(element_z, r_lens)
                          ELSE IntersectSphericalElement(
                                   element.curvature_radius,
                                   FAdd[element_z, element.curvature_radius], r_lens)} })

RECURSIVE RunFilm(_, _)
RunFilm(E, tr) ==
    IF tr.status = "run" THEN Only({RunFilm(E, next) : next \in {FilmIteration(E, tr)}})
    ELSE tr

RECURSIVE RunScene(_, _)
RunScene(E, tr) ==
    IF tr.status = "run" THEN Only({RunScene(E, next) : next \in {SceneIteration(E, tr)}})
    ELSE tr

\* The whole of trace_lenses_from_film and of trace_lenses_from_scene; on
\* status "true" the ray handed back is RayOut.
TraceLensesFromFilm(E, r_camera) == RunFilm(E, TraceFromFilmStart(E, r_camera))
TraceLensesFromScene(E, r_camera) == RunScene(E, TraceFromSceneStart(E, r_camera))
RayOut(tr) == FlipZ[tr.r_lens]

(***************************************************************************)
(* Focus calibration and the exit pupil                                    *)
(***************************************************************************)

\* The number of samples bound_exit_pupil draws (1024 * 1024 in the code),
\* and the value at which the count of its executions stops growing.
NSamples == 12
MaxExecutions == 3

\* compute_cardinal_points: the focal point and principal plane of one side.
ComputeCardinalPoints(r_in, r_out) ==
    Only({ [fz |-> FNeg[Position[r_out, tf].z], pz |-> FNeg[Position[r_out, tp].z]]
           : tf \in {FDiv[FNeg[r_out.o.x], r_out.d.x]},
             tp \in {FDiv[FSub[r_in.o.x, r_out.o.x], r_out.d.x]} })

\* compute_thick_lens_approximation: pz[0], fz[0] from the scene-side probe,
\* pz[1], fz[1] from the film-side probe; it panics when a probe does not
\* come through (or on an empty prescription, at lens_rear_z).
ComputeThickLensApproximation(E, diagonal) ==
    LET Failed(reason) ==
            [status |-> "panic", why |-> reason,
             pz |-> [k \in {0, 1} |-> 0], fz |-> [k \in {0, 1} |-> 0]]
        x == FMul[Lit(1, 1000), diagonal]
        r_scene == Ray(Vec(x, 0, FAdd[LensFrontZ(E), Lit(1, 1)]), Vec(0, 0, FNeg[Lit(1, 1)]))
        r_film == Ray(Vec(x, 0, FSub[LensRearZ(E), Lit(1, 1)]), Vec(0, 0, Lit(1, 1)))
    IN  Only({ IF from_scene.status # "true"
               THEN Failed(IF from_scene.status = "panic" THEN "assert_t"
                           ELSE "scene_probe")
               ELSE IF Len(E) = 0 THEN Failed("unwrap_none")
               ELSE Only({ IF from_film.status # "true"
                           THEN Failed(IF from_film.status = "panic" THEN "assert_t"
                                       ELSE "film_probe")
                           ELSE Only({ [status |-> "ok", why |-> "none",
                                        pz |-> (0 :> cp0.pz @@ 1 :> cp1.pz),
                                        fz |-> (0 :> cp0.fz @@ 1 :> cp1.fz)]
                                       : cp1 \in {ComputeCardinalPoints(
                                                      r_film, RayOut(from_film))} })
                           : cp0 \in {ComputeCardinalPoints(r_scene, RayOut(from_scene))},
                             from_film \in {TraceLensesFromFilm(E, r_film)} })
               : from_scene \in {TraceLensesFromScene(E, r_scene)} })

\* The coefficient c of focus_thick_lens.
Coefficient(pz, fz, focus_distance) ==
    LET f == FSub[fz[0], pz[0]]
        z == FNeg[focus_distance]
    IN  FMul[FSub[FSub[pz[1], z], pz[0]],
             FSub[FSub[FSub[pz[1], z], FMul[Lit(4, 1), f]], pz[0]]]

\* focus_thick_lens asserting !(c <= 0.0) in place of c > 0.0.
FocusThickLensUnlessNonPositive(E, diagonal, focus_distance) ==
    LET z == FNeg[focus_distance]
    IN  Only({ IF tl.status = "panic"
               THEN [status |-> "panic", why |-> tl.why, c |-> 0, value |-> 0]
               ELSE Only({ IF FLe[c, 0]
                           THEN [status |-> "panic", why |-> "coefficient", c |-> c,
                                 value |-> 0]
                           ELSE [status |-> "ok", why |-> "none", c |-> c,
                                 value |-> FAdd[E[Len(E)].thickness,
                                                FMul[Lit(1, 2),
                                                     FSub[FAdd[FSub[tl.pz[1], z], tl.pz[0]],
                                                          FSqrt[c]]]]]
                           : c \in {Coefficient(tl.pz, tl.fz, focus_distance)} })
               : tl \in {ComputeThickLensApproximation(E, diagonal)} })

\* focus_thick_lens: the film distance of the thick lens approximation, or a
\* panic when the approximation fails or c > 0 does not hold.
FocusThickLens(E, diagonal, focus_distance) ==
    LET z == FNeg[focus_distance]
    IN  Only({ IF tl.status = "panic"
               THEN [status |-> "panic", why |-> tl.why, c |-> 0, value |-> 0]
               ELSE Only({ IF ~FGt[c, 0]
                           THEN [status |-> "panic", why |-> "coefficient", c |-> c,
                                 value |-> 0]
                           ELSE [status |-> "ok", why |-> "none", c |-> c,
                                 value |-> FAdd[E[Len(E)].thickness,
                                                FMul[Lit(1, 2),
                                                     FSub[FAdd[FSub[tl.pz[1], z], tl.pz[0]],
                                                          FSqrt[c]]]]]
                           : c \in {Coefficient(tl.pz, tl.fz, focus_distance)} })
               : tl \in {ComputeThickLensApproximation(E, diagonal)} })

\* The square bound_exit_pupil samples: 1.5 times the rear element's.
ProjRearBounds(E) ==
    LET rear_radius == RearElementRadius(E)
    IN  Bnd2(Pnt2(FMul[FNeg[Lit(3, 2)], rear_radius], FMul[FNeg[Lit(3, 2)], rear_radius]),
             Pnt2(FMul[Lit(3, 2), rear_radius], FMul[Lit(3, 2), rear_radius]))

\* The point on the rear plane that sample i aims at.
SampleRear(E, i) ==
    Only({ Vec(Lerp[RadicalInverse(0, i), b.p_min.x, b.p_max.x],
               Lerp[RadicalInverse(1, i), b.p_min.y, b.p_max.y],
               LensRearZ(E))
           : b \in {ProjRearBounds(E)} })

\* The point on the film that sample i starts from.
SampleFilm(i, p_film_x0, p_film_x1) ==
    Vec(Lerp[FDiv[FAdd[i * Scale, Lit(1, 2)], NSamples * Scale], p_film_x0, p_film_x1], 0, 0)

\* bound_exit_pupil before its loop.
PupilStart ==
    [status |-> "run", i |-> 0, pupil_bounds |-> Bounds2fDefault,
     n_exiting_rays |-> 0, n_traced_through |-> 0, result |-> Bounds2fDefault]

\* SampleExits with && written for ||.
SampleExitsBoth(inside, traced) == inside /\ traced

\* Whether a sample counts as exiting: inside the bounds so far, or traced
\* through the lenses.
SampleExits(inside, traced) == inside \/ traced

\* One iteration of the sampling loop of bound_exit_pupil.
PupilIteration(E, st, p_film_x0, p_film_x1) ==
    Only({ Only({ Only({ IF ~inside /\ tr.status = "panic"
                         THEN [st EXCEPT !.status = "panic"]
                         ELSE LET traced == ~inside /\ tr.status = "true"
                                  pt == Pnt2(p_rear.x, p_rear.y)
                              IN  [status |-> IF st.i + 1 = NSamples THEN "sampled"
                                              ELSE "run",
                                   i |-> st.i + 1,
                                   pupil_bounds |->
                                       IF SampleExits(inside, traced)
                                       THEN Bnd2UnionPnt2(st.pupil_bounds, pt)
                                       ELSE st.pupil_bounds,
                                   n_exiting_rays |->
                                       IF SampleExits(inside, traced)
                                       THEN st.n_exiting_rays + 1 ELSE st.n_exiting_rays,
                                   n_traced_through |->
                                       IF traced THEN st.n_traced_through + 1
                                       ELSE st.n_traced_through,
                                   result |-> st.result]
                         : tr \in {IF inside THEN NoTrace
                                   ELSE TraceLensesFromFilm(
                                            E, Ray(p_film, VSub[p_rear, p_film]))} })
                  : inside \in {Pnt2InsideBnd2(Pnt2(p_rear.x, p_rear.y),
                                               st.pupil_bounds)} })
           : p_film \in {SampleFilm(st.i, p_film_x0, p_film_x1)},
             p_rear \in {SampleRear(E, st.i)} })

\* The amount by which the bounds found are expanded.
SampleSpacing(E) ==
    FDiv[FMul[Lit(2, 1), Bnd2DiagonalLength(ProjRearBounds(E))], FSqrt[NSamples * Scale]]

\* PupilReturn without the expansion by the sample spacing.
PupilReturnUnexpanded(E, st) ==
    [st EXCEPT !.status = "returned",
               !.result = IF st.n_exiting_rays = 0 THEN ProjRearBounds(E)
                          ELSE st.pupil_bounds]

\* What bound_exit_pupil returns after its loop.
PupilReturn(E, st) ==
    [st EXCEPT !.status = "returned",
               !.result = IF st.n_exiting_rays = 0 THEN ProjRearBounds(E)
                          ELSE Bnd2Expand(st.pupil_bounds, SampleSpacing(E))]

RECURSIVE RunPupil(_, _, _, _)
RunPupil(E, st, p_film_x0, p_film_x1) ==
    IF st.status = "run"
    THEN Only({ RunPupil(E, next, p_film_x0, p_film_x1)
                : next \in {PupilIteration(E, st, p_film_x0, p_film_x1)} })
    ELSE IF st.status = "sampled" THEN PupilReturn(E, st)
    ELSE st

\* The whole of bound_exit_pupil.
BoundExitPupil(E, p_film_x0, p_film_x1) == RunPupil(E, PupilStart, p_film_x0, p_film_x1)

\* focus_distance: it bounds the exit pupil of the film's centre and, the
\* rest of it being left out of the code, returns 0.0.
FocusDistance(E, diagonal, film_dist) ==
    Only({ [status |-> IF bounds.status = "panic" THEN "panic" ELSE "ok", value |-> 0]
           : bounds \in {BoundExitPupil(E, 0, FMul[Lit(1, 1000), diagonal])} })

(***************************************************************************)
(* The inputs explored                                                     *)
(***************************************************************************)

\* A length in millimetres, as the lens file gives it.
Mm(n) == n * Scale

\* Lens files: four values per record (curvature radius, thickness, eta,
\* aperture diameter).  Two of them are not whole records.
StopOnly == <<0, 0, 0, Mm(100)>>
StopBehindGap == <<0, Mm(200), 0, Mm(100)>>
Biconvex == <<Mm(100), Mm(30), Lit(3, 2), Mm(150), 0 - Mm(100), Mm(200), Lit(1, 1), Mm(150)>>
LensThenStop == <<0 - Mm(100), Mm(30), Lit(3, 2), Mm(150), 0, Mm(50), 0, Mm(100)>>
StopThenLens == <<0, Mm(50), 0, Mm(100), Mm(100), Mm(30), Lit(3, 2), Mm(150),
                  0 - Mm(100), Mm(200), 0, Mm(150)>>
ExcessValue == <<0, Mm(200), 0, Mm(100), Mm(100)>>
ShortRecord == <<Mm(100), Mm(30), Lit(3, 2)>>

WholeLensFiles == {StopOnly, StopBehindGap, Biconvex, LensThenStop, StopThenLens}
LensFiles == WholeLensFiles \cup {ExcessValue, ShortRecord}
ApertureDiameters == {Mm(40), Mm(80), Mm(200)}
FocusDistances == {0 - Lit(1, 100), 0, Lit(1, 1), Lit(10, 1)}
Diagonals == {Lit(25, 1)}

\* Camera-space rays handed to the tracers.
RayOrigins == {Vec(x, y, z) : x \in {0, 50, 140}, y \in {0, 100},
                              z \in {0, Lit(1, 10), Lit(1, 1)}}
RayDirections == {Vec(0, 0, Lit(1, 1)), Vec(0, 0, 0 - Lit(1, 1)),
                  Vec(Lit(1, 10), 0, Lit(1, 1)), Vec(0 - Lit(1, 10), 0, 0 - Lit(1, 1)),
                  Vec(Lit(1, 1), 0, 0)}
\* Film segments handed to bound_exit_pupil.
FilmSegments == {<<0, 0>>, <<0, 50>>, <<100, 200>>}

\* The prescription RealisticCamera::new builds from a file of whole records.
Prescription(data, diameter) ==
    [k \in 1..(Len(data) \div 4) |-> NewElement(data, 4 * (k - 1), diameter)]

(***************************************************************************)
(* The state machine                                                       *)
(***************************************************************************)

VARIABLES
    pc,                    \* where the program is
    why,                   \* the panic or the return taken, "none" before
    read_ok,               \* what read_float_file returned
    lens_data,             \* the values read from the lens file
    aperture_diameter,     \* "aperturediameter"
    focus_distance,        \* "focusdistance"
    diagonal,              \* film.diagonal
    messages,              \* the ERROR lines create printed
    i_data,                \* the index into lens_data of the loop of new
    element_interfaces,    \* RealisticCamera::element_interfaces
    exit_pupil_bounds,     \* RealisticCamera::exit_pupil_bounds
    film_distance_lower,   \* focus_binary_search's bracket
    film_distance_upper,
    search_result,         \* what focus_binary_search returned
    executions,            \* how often bound_exit_pupil ran for the film's centre
    trace,                 \* the state of the tracer being run
    pupil,                 \* the state of bound_exit_pupil being run
    p_film_x               \* its film segment <<p_film_x0, p_film_x1>>

vars == <<pc, why, read_ok, lens_data, aperture_diameter, focus_distance, diagonal,
          messages, i_data, element_interfaces, exit_pupil_bounds, film_distance_lower,
          film_distance_upper, search_result, executions, trace, pupil, p_film_x>>

config == <<read_ok, lens_data, aperture_diameter, focus_distance, diagonal>>
focus == <<film_distance_lower, film_distance_upper, search_result, executions>>
tracing == <<trace, pupil, p_film_x>>

NoPupil == [PupilStart EXCEPT !.status = "none"]

InitCommon ==
    /\ why = "none"
    /\ aperture_diameter \in ApertureDiameters
    /\ diagonal \in Diagonals
    /\ messages = <<>>
    /\ i_data = 0
    /\ exit_pupil_bounds = <<>>
    /\ film_distance_lower = 0
    /\ film_distance_upper = 0
    /\ search_result = 0
    /\ executions = 0

\* RealisticCamera::create is about to read the lens file.
InitCreate ==
    /\ InitCommon
    /\ pc = "create"
    /\ \/ read_ok = TRUE /\ lens_data \in LensFiles
       \/ read_ok = FALSE /\ lens_data = <<>>
    /\ focus_distance \in FocusDistances
    /\ element_interfaces = <<>>
    /\ trace = NoTrace
    /\ pupil = NoPupil
    /\ p_film_x = <<0, 0>>

\* One of the tracers is called with a ray, on a prescription new builds.
InitTrace ==
    /\ InitCommon
    /\ read_ok = TRUE
    /\ lens_data \in WholeLensFiles
    /\ focus_distance = 0
    /\ element_interfaces = Prescription(lens_data, aperture_diameter)
    /\ \E o \in RayOrigins, d \in RayDirections :
          \/ /\ pc = "trace_lenses_from_film"
             /\ trace = TraceFromFilmStart(element_interfaces, Ray(o, d))
          \/ /\ pc = "trace_lenses_from_scene"
             /\ trace = TraceFromSceneStart(element_interfaces, Ray(o, d))
    /\ pupil = NoPupil
    /\ p_film_x = <<0, 0>>

\* bound_exit_pupil is called with a film segment, on a prescription new builds.
InitPupil ==
    /\ InitCommon
    /\ read_ok = TRUE
    /\ lens_data \in WholeLensFiles
    /\ focus_distance = 0
    /\ element_interfaces = Prescription(lens_data, aperture_diameter)
    /\ pc = "bound_exit_pupil"
    /\ trace = NoTrace
    /\ pupil = PupilStart
    /\ p_film_x \in FilmSegments

Init == InitCreate \/ InitTrace \/ InitPupil

\* RealisticCamera::create: it reports a file it could not read and values
\* that are not whole records, and goes on to RealisticCamera::new.
Create ==
    /\ pc = "create"
    /\ messages' = (IF ~read_ok THEN <<"Error reading lens specification file">> ELSE <<>>)
                   \o (IF Len(lens_data) % 4 # 0
                       THEN <<"Excess values in lens specification file">> ELSE <<>>)
    /\ pc' = "new"
    /\ UNCHANGED <<why, config, i_data, element_interfaces, exit_pupil_bounds, focus, tracing>>

\* One iteration of the loop of RealisticCamera::new over the records; reading
\* past the end of lens_data panics.
NewElementStep ==
    /\ pc = "new"
    /\ i_data < Len(lens_data)
    /\ IF i_data + 3 >= Len(lens_data)
       THEN /\ pc' = "panic"
            /\ why' = "index_out_of_bounds"
            /\ UNCHANGED <<i_data, element_interfaces>>
       ELSE /\ element_interfaces' =
                   Append(element_interfaces, NewElement(lens_data, i_data, aperture_diameter))
            /\ i_data' = i_data + 4
            /\ UNCHANGED <<pc, why>>
    /\ UNCHANGED <<config, messages, exit_pupil_bounds, focus, tracing>>

\* RealisticCamera::new after its loop: the camera is put together, with no
\* exit pupil bounds, and focus_binary_search is called.
NewCamera ==
    /\ pc = "new"
    /\ i_data >= Len(lens_data)
    /\ exit_pupil_bounds' = <<>>
    /\ pc' = "focus_binary_search"
    /\ UNCHANGED <<why, config, messages, i_data, element_interfaces, focus, tracing>>

\* focus_binary_search: both ends of the bracket start at focus_thick_lens.
SearchSeed ==
    /\ pc = "focus_binary_search"
    /\ \E ftl \in {FocusThickLens(element_interfaces, diagonal, focus_distance)} :
           IF ftl.status = "panic"
           THEN /\ pc' = "panic"
                /\ why' = ftl.why
                /\ UNCHANGED <<film_distance_lower, film_distance_upper>>
           ELSE /\ film_distance_upper' = ftl.value
                /\ film_distance_lower' = ftl.value
                /\ pc' = "lower"
                /\ UNCHANGED why
    /\ UNCHANGED <<config, messages, i_data, element_interfaces, exit_pupil_bounds,
                   search_result, executions, tracing>>

\* The count of executions of bound_exit_pupil, which stops at MaxExecutions.
Counted(n) == IF n < MaxExecutions THEN n + 1 ELSE n

\* while self.focus_distance(film_distance_lower) > focus_distance
SearchLower ==
    /\ pc = "lower"
    /\ \E fd \in {FocusDistance(element_interfaces, diagonal, film_distance_lower)} :
           /\ executions' = Counted(executions)
           /\ IF fd.status = "panic"
              THEN pc' = "panic" /\ why' = "assert_t" /\ UNCHANGED film_distance_lower
              ELSE IF FGt[fd.value, focus_distance]
              THEN /\ film_distance_lower' = FMul[film_distance_lower, Lit(1005, 1000)]
                   /\ UNCHANGED <<pc, why>>
              ELSE pc' = "upper" /\ UNCHANGED <<why, film_distance_lower>>
    /\ UNCHANGED <<config, messages, i_data, element_interfaces, exit_pupil_bounds,
                   film_distance_upper, search_result, tracing>>

\* while self.focus_distance(film_distance_upper) < focus_distance; after it
\* focus_binary_search returns 0.0.
SearchUpper ==
    /\ pc = "upper"
    /\ \E fd \in {FocusDistance(element_interfaces, diagonal, film_distance_upper)} :
           /\ executions' = Counted(executions)
           /\ IF fd.status = "panic"
              THEN /\ pc' = "panic" /\ why' = "assert_t"
                   /\ UNCHANGED <<film_distance_upper, search_result>>
              ELSE IF FLt[fd.value, focus_distance]
              THEN /\ film_distance_upper' = FDiv[film_distance_upper, Lit(1005, 1000)]
                   /\ UNCHANGED <<pc, why, search_result>>
              ELSE /\ search_result' = 0
                   /\ pc' = "searched"
                   /\ UNCHANGED <<why, film_distance_upper>>
    /\ UNCHANGED <<config, messages, i_data, element_interfaces, exit_pupil_bounds,
                   film_distance_lower, tracing>>

\* RealisticCamera::new drops what focus_binary_search returned and returns
\* the camera.
NewReturn ==
    /\ pc = "searched"
    /\ pc' = "constructed"
    /\ UNCHANGED <<why, config, messages, i_data, element_interfaces, exit_pupil_bounds,
                   focus, tracing>>

\* One iteration of the loop of trace_lenses_from_film.
TraceFromFilmStep ==
    /\ pc = "trace_lenses_from_film"
    /\ trace.status = "run"
    /\ trace' = FilmIteration(element_interfaces, trace)
    /\ UNCHANGED <<pc, why, config, messages, i_data, element_interfaces, exit_pupil_bounds,
                   focus, pupil, p_film_x>>

\* One iteration of the loop of trace_lenses_from_scene.
TraceFromSceneStep ==
    /\ pc = "trace_lenses_from_scene"
    /\ trace.status = "run"
    /\ trace' = SceneIteration(element_interfaces, trace)
    /\ UNCHANGED <<pc, why, config, messages, i_data, element_interfaces, exit_pupil_bounds,
                   focus, pupil, p_film_x>>

\* One iteration of the sampling loop of bound_exit_pupil.
PupilSampleStep ==
    /\ pc = "bound_exit_pupil"
    /\ pupil.status = "run"
    /\ pupil' = PupilIteration(element_interfaces, pupil, p_film_x[1], p_film_x[2])
    /\ UNCHANGED <<pc, why, config, messages, i_data, element_interfaces, exit_pupil_bounds,
                   focus, trace, p_film_x>>

\* bound_exit_pupil returns.
PupilReturnStep ==
    /\ pc = "bound_exit_pupil"
    /\ pupil.status = "sampled"
    /\ pupil' = PupilReturn(element_interfaces, pupil)
    /\ UNCHANGED <<pc, why, config, messages, i_data, element_interfaces, exit_pupil_bounds,
                   focus, trace, p_film_x>>

Next ==
    \/ Create
    \/ NewElementStep
    \/ NewCamera
    \/ SearchSeed
    \/ SearchLower
    \/ SearchUpper
    \/ NewReturn
    \/ TraceFromFilmStep
    \/ TraceFromSceneStep
    \/ PupilSampleStep
    \/ PupilReturnStep

Spec == Init /\ [][Next]_vars

\* Construction runs single-threaded and to completion: a step that can be
\* taken is taken.  Termination is examined for the cameras built from one
\* lens file, the biconvex lens at an aperture diameter of 80 mm, focused at
\* 0 and at 1 m, and for the tracer and sampler calls on that prescription.
FairInit ==
    /\ Init
    /\ lens_data = Biconvex
    /\ aperture_diameter = Mm(80)
    /\ focus_distance \in {0, Lit(1, 1)}

FairSpec == FairInit /\ [][Next]_vars /\ WF_vars(Next)

(***************************************************************************)
(* The properties checked                                                  *)
(***************************************************************************)

\* C1: for every prescription and every ray, trace_lenses_from_film and
\* trace_lenses_from_scene end by returning true or false and never by a
\* panic: the assertion t >= 0 holds every time it is reached.
C1_TracersNeverPanic == trace.status # "panic"

\* C2: after RealisticCamera::new returned, the thickness of the last element
\* is the film distance focus_binary_search returned.
C2_RearThicknessIsSearchResult ==
    pc = "constructed" =>
        element_interfaces[Len(element_interfaces)].thickness = search_result

\* C3: focus calibration terminates: once focus_thick_lens has seeded the
\* bracket for a focus distance > 0, both expansion loops exit and
\* focus_binary_search returns.  (A loop that goes on without changing
\* film_distance_upper, which has reached 0, nor the count of executions,
\* which has reached MaxExecutions, shows as a behaviour that stays in
\* pc = "upper".)
C3_CalibrationTerminates ==
    (pc = "lower" /\ FGt[focus_distance, 0]) ~> (pc \in {"searched", "panic"})

\* C4: focus_binary_search returns the midpoint 0.5 * (lower + upper) of its
\* final bracket, a value between the final lower and upper film distances.
C4_ReturnsMidpoint ==
    pc = "searched" =>
        /\ search_result = FMul[Lit(1, 2), FAdd[film_distance_lower, film_distance_upper]]
        /\ FLe[FMin[film_distance_lower, film_distance_upper], search_result]
        /\ FLe[search_result, FMax[film_distance_lower, film_distance_upper]]

\* Where RealisticCamera::create and RealisticCamera::new can be.
Constructing ==
    pc \in {"create", "new", "focus_binary_search", "lower", "upper", "searched",
            "constructed", "panic"}

\* C5: new builds one element per group of four values, in file order; a
\* stop's diameter is the smaller of the user's aperture diameter and the
\* record's, any other element's is the record's; the aperture radius stored
\* is that diameter * 0.001 / 2; a user's diameter above the record's does not
\* make construction fail.
C5_PrescriptionBuilt ==
    Constructing =>
        /\ i_data = 4 * Len(element_interfaces)
        /\ \A k \in 1..Len(element_interfaces) :
              LET record == SubSeq(lens_data, 4 * k - 3, 4 * k)
                  effective == IF record[1] = 0 THEN FMin[aperture_diameter, record[4]]
                               ELSE record[4]
              IN  /\ element_interfaces[k].curvature_radius = FMul[record[1], Lit(1, 1000)]
                  /\ element_interfaces[k].thickness = FMul[record[2], Lit(1, 1000)]
                  /\ element_interfaces[k].eta = record[3]
                  /\ element_interfaces[k].aperture_radius =
                         FDiv[FMul[effective, Lit(1, 1000)], Lit(2, 1)]
        /\ (pc = "panic" /\ why = "index_out_of_bounds") => Len(lens_data) - i_data < 4
        /\ pc \notin {"create", "new", "panic"} => i_data = Len(lens_data)

\* A stop was built from a record whose diameter is below the user's.
C5_StopClamped ==
    /\ pc = "constructed"
    /\ \E k \in 1..Len(element_interfaces) :
          /\ element_interfaces[k].curvature_radius = 0
          /\ FGt[aperture_diameter, lens_data[4 * k]]
          /\ element_interfaces[k].aperture_radius = FMul[lens_data[4 * k], Lit(1, 2000)]

\* The element a record of the trace's log is about, in either tracer.
ElementOf(entry) == element_interfaces[entry.i + 1]

\* C6: in both tracers a hit point whose x^2 + y^2 is greater than the
\* element's squared aperture radius makes the trace return false at that
\* element, with no later element processed, whatever the element is; a
\* trace that returns true has passed this test at every element.
C6_VignettingEnforced ==
    pc \in {"trace_lenses_from_film", "trace_lenses_from_scene"} =>
        /\ \A k \in 1..Len(trace.log) :
              LET entry == trace.log[k]
                  tested == entry.why \notin {"no_intersection", "assert_t", "stop_behind"}
              IN  /\ entry.ap2 = FMul[ElementOf(entry).aperture_radius,
                                      ElementOf(entry).aperture_radius]
                  /\ entry.i = (IF pc = "trace_lenses_from_film"
                                THEN Len(element_interfaces) - k ELSE k - 1)
                  /\ (tested /\ FGt[entry.r2, entry.ap2]) =>
                         /\ entry.outcome = "false"
                         /\ k = Len(trace.log)
                         /\ trace.status = "false"
                  /\ entry.outcome = "pass" => ~FGt[entry.r2, entry.ap2]
                  /\ k < Len(trace.log) => entry.outcome = "pass"
        /\ (trace.n > 0 /\ trace.log[trace.n].outcome = "pass") =>
              trace.log[trace.n].r2 = FAdd[FMul[trace.r_lens.o.x, trace.r_lens.o.x],
                                           FMul[trace.r_lens.o.y, trace.r_lens.o.y]]
        /\ trace.status = "true" =>
              /\ Len(trace.log) = Len(element_interfaces)
              /\ \A k \in 1..Len(trace.log) : trace.log[k].outcome = "pass"

\* A trace was turned away at a stop that is not the first element it met,
\* the hit point lying outside the stop's aperture.
C6_VignettedAtStop ==
    /\ trace.status = "false"
    /\ Len(trace.log) > 1
    /\ trace.log[Len(trace.log)].why = "vignetted"
    /\ trace.log[Len(trace.log)].is_stop
    /\ FGt[trace.log[Len(trace.log)].r2, trace.log[Len(trace.log)].ap2]

\* C7: when the lens file cannot be read or holds a number of values that is
\* no multiple of four, create aborts: it does not go on to build elements or
\* to run the focus calibration.
C7_MalformedIsFatal ==
    (~read_ok \/ Len(lens_data) % 4 # 0) =>
        /\ pc \notin {"new", "focus_binary_search", "lower", "upper", "searched",
                      "constructed"}
        /\ element_interfaces = <<>>

\* focus_binary_search has just called focus_thick_lens: it panicked there, or
\* the bracket holds what it returned and no loop has run yet.
Seeded ==
    \/ pc = "lower" /\ executions = 0
    \/ pc = "panic" /\ why \in {"scene_probe", "film_probe", "unwrap_none", "coefficient"}

\* The thick lens approximation of the camera, and the coefficient c it
\* gives at the camera's focus distance.
ThickLens == ComputeThickLensApproximation(element_interfaces, diagonal)
ThickLensC == Coefficient(ThickLens.pz, ThickLens.fz, focus_distance)

\* C8 as amended: focus_thick_lens panics when a probe of
\* compute_thick_lens_approximation does not come through and, the probes
\* having come through, exactly when c > 0 does not hold (c <= 0 or c not a
\* number); when c > 0 it returns the last element's thickness
\* + 0.5 * (pz[1] - z + pz[0] - sqrt(c)); the prescription is what new built.
C8_FailsUnlessPositive ==
    Seeded =>
        /\ ThickLens.status = "panic" => pc = "panic" /\ why = ThickLens.why
        /\ ThickLens.status = "ok" =>
              /\ (pc = "panic" /\ why = "coefficient") <=> ~FGt[ThickLensC, 0]
              /\ FGt[ThickLensC, 0] =>
                    /\ pc = "lower"
                    /\ film_distance_upper =
                           FAdd[element_interfaces[Len(element_interfaces)].thickness,
                                FMul[Lit(1, 2),
                                     FSub[FAdd[FSub[ThickLens.pz[1], FNeg[focus_distance]],
                                               ThickLens.pz[0]],
                                          FSqrt[ThickLensC]]]]
                    /\ film_distance_lower = film_distance_upper
        /\ element_interfaces = Prescription(lens_data, aperture_diameter)

\* focus_thick_lens panicked on a coefficient that is not a number: c <= 0
\* does not hold of it, and neither does c > 0.
C8_FailedOnNaN ==
    /\ pc = "panic" /\ why = "coefficient"
    /\ ThickLens.status = "ok"
    /\ IsNaN(ThickLensC)
    /\ ~FLe[ThickLensC, 0]

\* C8 as stated: the probes having come through, focus_thick_lens fails
\* exactly when c <= 0.
C8_FailsExactlyWhenNonPositive ==
    (Seeded /\ ThickLens.status = "ok") =>
        ((pc = "panic" /\ why = "coefficient") <=> FLe[ThickLensC, 0])

\* C9: the exit pupil bound of a film segment is computed at most once for
\* the life of the camera: bound_exit_pupil does not run twice for the segment
\* of the film's centre.
C9_ComputedAtMostOnce == executions <= 1

\* The aim point, the film point and the test against the bounds so far of
\* the sample bound_exit_pupil is about to take.
NextRear == SampleRear(element_interfaces, pupil.i)
NextFilm == SampleFilm(pupil.i, p_film_x[1], p_film_x[2])
NextInside == Pnt2InsideBnd2(Pnt2(NextRear.x, NextRear.y), pupil.pupil_bounds)
NextTraced ==
    TraceLensesFromFilm(element_interfaces, Ray(NextFilm, VSub[NextRear, NextFilm])).status
        = "true"

\* What bound_exit_pupil returned: the enlarged square of the rear element
\* exactly when no sample was counted, else the bounds found expanded by
\* 2 * diagonal(enlarged square) / sqrt(sample count); with no sample traced
\* through, none is counted.
C10_Returned ==
    (pc = "bound_exit_pupil" /\ pupil.status = "returned") =>
        LET r == element_interfaces[Len(element_interfaces)].aperture_radius
            lo == FMul[FNeg[Lit(3, 2)], r]
            hi == FMul[Lit(3, 2), r]
            square == Bnd2(Pnt2(lo, lo), Pnt2(hi, hi))
            spacing == FDiv[FMul[Lit(2, 1), Bnd2DiagonalLength(square)],
                            FSqrt[NSamples * Scale]]
        IN  /\ pupil.i = NSamples
            /\ (pupil.result = square) <=> (pupil.n_exiting_rays = 0)
            /\ pupil.n_exiting_rays > 0 =>
                   pupil.result = Bnd2Expand(pupil.pupil_bounds, spacing)
            /\ pupil.n_traced_through = 0 => pupil.n_exiting_rays = 0

\* A step of the sampling loop counts its sample exactly when the sample
\* lies inside the bounds found so far or its trace from the film succeeds.
C10_Counted ==
    (pc = "bound_exit_pupil" /\ pupil.status = "run") =>
        pupil'.n_exiting_rays =
            pupil.n_exiting_rays + (IF NextInside \/ NextTraced THEN 1 ELSE 0)

\* C10: bound_exit_pupil returns the enlarged square [-1.5r, 1.5r]^2 of the
\* rear element if and only if no sample was counted as exiting, and else the
\* accumulated bound expanded by 2 * diagonal / sqrt(sample count); a sample
\* is counted only if its trace succeeds or it lies inside the bound
\* accumulated so far, so that the count is zero when no ray gets through.
C10_BoundExitPupil == []C10_Returned /\ [][C10_Counted]_vars

\* bound_exit_pupil returned expanded bounds, having counted samples it
\* traced and samples that lay inside the bounds found before them.
C10_CountedInside ==
    /\ pc = "bound_exit_pupil" /\ pupil.status = "returned"
    /\ pupil.n_traced_through > 0
    /\ pupil.n_exiting_rays > pupil.n_traced_through
    /\ pupil.result # pupil.pupil_bounds

\* A record of the log at which refract was called: a refracting element
\* whose hit point passed the assertion and the aperture test.
Refracted(entry) ==
    ~entry.is_stop /\ entry.why \in {"none", "total_internal_reflection"}

\* An index of refraction with 0 read as vacuum.
Vacuum(eta) == IF eta = 0 THEN Lit(1, 1) ELSE eta

\* The normal intersect_spherical_element reports at the hit point p of a ray
\* of direction d on the element a record of the log is about.
NormalAt(entry, p, d) ==
    FaceForward[VNormalize[VSub[p, Vec(0, 0, FAdd[entry.element_z,
                                                  ElementOf(entry).curvature_radius])]],
                VNeg[d]]

\* C11: at every refracting element i, trace_lenses_from_film refracts with
\* incoming index = element i's eta and outgoing index = the eta of the
\* element it goes on to (1 past the last one), trace_lenses_from_scene with
\* incoming index = the previous element's eta (1 at the first element) and
\* outgoing index = element i's eta, an eta of 0 being read as 1; neither
\* index used is 0, and the ratio handed to refract is incoming / outgoing.
C11_IndicesOfRefraction ==
    pc \in {"trace_lenses_from_film", "trace_lenses_from_scene"} =>
        \A k \in 1..Len(trace.log) :
            LET entry == trace.log[k]
                own == Vacuum(ElementOf(entry).eta)
                other == IF entry.i = 0 THEN Lit(1, 1)
                         ELSE Vacuum(element_interfaces[entry.i].eta)
            IN  Refracted(entry) =>
                    /\ entry.eta_i = (IF pc = "trace_lenses_from_film" THEN own ELSE other)
                    /\ entry.eta_t = (IF pc = "trace_lenses_from_film" THEN other ELSE own)
                    /\ entry.eta_i # 0
                    /\ entry.eta_t # 0
                    /\ (k = Len(trace.log) /\ entry.outcome = "pass") =>
                           trace.r_lens.d =
                               Refract(VNormalize[VNeg[entry.d_in]],
                                       NormalAt(entry, trace.r_lens.o, entry.d_in),
                                       FDiv[entry.eta_i, entry.eta_t]).wt

\* The roots of the quadratic of a ray and the sphere of the element a record
\* of the log is about.
RootsOf(ray, entry) ==
    LET radius == ElementOf(entry).curvature_radius
        o == VSub[ray.o, Vec(0, 0, FAdd[entry.element_z, radius])]
    IN  Quadratic(VDot[ray.d, ray.d], FMul[Lit(2, 1), VDot[ray.d, o]],
                  FSub[VDot[o, o], FMul[radius, radius]])

\* Whether the smaller root is the one to take: exactly one of ray.d.z > 0
\* and radius < 0 holds.
CloserRoot(ray, entry) ==
    \/ FGt[ray.d.z, 0] /\ ~FLt[ElementOf(entry).curvature_radius, 0]
    \/ ~FGt[ray.d.z, 0] /\ FLt[ElementOf(entry).curvature_radius, 0]

\* The root selected, and the one left.
SelectedRoot(ray, entry) ==
    IF CloserRoot(ray, entry) THEN FMin[RootsOf(ray, entry).t0, RootsOf(ray, entry).t1]
    ELSE FMax[RootsOf(ray, entry).t0, RootsOf(ray, entry).t1]
OtherRoot(ray, entry) ==
    IF CloserRoot(ray, entry) THEN FMax[RootsOf(ray, entry).t0, RootsOf(ray, entry).t1]
    ELSE FMin[RootsOf(ray, entry).t0, RootsOf(ray, entry).t1]

\* The quadratic has no real roots, or two roots that are numbers (a ray
\* whose origin is not a number has neither).
RootsDecided(ray, entry) ==
    \/ ~RootsOf(ray, entry).ok
    \/ ~IsNaN(RootsOf(ray, entry).t0) /\ ~IsNaN(RootsOf(ray, entry).t1)

\* A step of a tracer at a refracting element: the intersection fails exactly
\* when the quadratic has no real roots or the root selected is < 0, and else
\* reports the root selected, which is >= 0.
C12_Step ==
    (pc \in {"trace_lenses_from_film", "trace_lenses_from_scene"} /\ trace.status = "run") =>
        LET entry == trace'.log[Len(trace'.log)]
        IN  (~entry.is_stop /\ RootsDecided(trace.r_lens, entry)) =>
                /\ (entry.why = "no_intersection") <=>
                       (~RootsOf(trace.r_lens, entry).ok
                            \/ FLt[SelectedRoot(trace.r_lens, entry), 0])
                /\ entry.why # "no_intersection" =>
                       /\ entry.t = SelectedRoot(trace.r_lens, entry)
                       /\ FGe[entry.t, 0]

RECURSIVE ThicknessSum(_, _)
ThicknessSum(lo, hi) ==
    IF lo > hi THEN 0
    ELSE element_interfaces[lo + 1].thickness + ThicknessSum(lo + 1, hi)

C14_Step ==
    (pc \in {"trace_lenses_from_film", "trace_lenses_from_scene"} /\ trace.status = "run") =>
        LET entry == trace'.log[Len(trace'.log)]
            behind == pc = "trace_lenses_from_film" /\ FGe[trace.r_lens.d.z, 0]
        IN  entry.is_stop =>
                /\ behind =>
                       /\ trace'.status = "false"
                       /\ entry.why = "stop_behind"
                       /\ entry.t = 0
                       /\ trace'.r_lens = trace.r_lens
                /\ ~behind =>
                       /\ entry.why # "stop_behind"
                       /\ entry.t = FDiv[FSub[entry.element_z, trace.r_lens.o.z],
                                         trace.r_lens.d.z]
                /\ entry.outcome = "pass" =>
                       /\ trace'.r_lens.o = Position[trace.r_lens, entry.t]
                       /\ trace'.r_lens.d = trace.r_lens.d
                       /\ entry.d_out = entry.d_in
                /\ entry.why \notin {"total_internal_reflection", "no_intersection"}

\* C14: an aperture stop only bounds the ray and never refracts it: in
\* trace_lenses_from_film a stop reached with ray direction z >= 0 makes the
\* trace return false before any intersection is computed; a stop the ray
\* passes, in either tracer, moves the ray's origin to the hit point on the
\* stop's plane and leaves its direction unchanged, refract not being called.
C14_StopNeverRefracts == [][C14_Step]_vars

\* A ray bent by a lens passed a stop: it left the stop off the axis'
\* direction, as it came.
C14_ObliqueRayPassedStop ==
    /\ pc \in {"trace_lenses_from_film", "trace_lenses_from_scene"}
    /\ Len(trace.log) > 1
    /\ trace.log[Len(trace.log)].is_stop
    /\ trace.log[Len(trace.log)].outcome = "pass"
    /\ ~trace.log[Len(trace.log) - 1].is_stop
    /\ trace.log[Len(trace.log) - 1].d_out # trace.log[Len(trace.log) - 1].d_in
    /\ trace.r_lens.d = trace.log[Len(trace.log) - 1].d_out
    /\ (trace.r_lens.d.x # 0 \/ trace.r_lens.d.y # 0)

\* The aim point of sample k on the rear plane, and whether the trace from
\* the film of sample k succeeds.
RearPoint(k) ==
    Pnt2(SampleRear(element_interfaces, k).x, SampleRear(element_interfaces, k).y)
SampleSucceeds(k) ==
    TraceLensesFromFilm(
        element_interfaces,
        Ray(SampleFilm(k, p_film_x[1], p_film_x[2]),
            VSub[SampleRear(element_interfaces, k),
                 SampleFilm(k, p_film_x[1], p_film_x[2])])).status = "true"

\* The samples before sample i whose trace succeeds.
Succeeding(i) == {k \in 0..(i - 1) : SampleSucceeds(k)}

\* The least and the greatest of a set of finite numbers.
LeastOf(S) == CHOOSE m \in S : \A v \in S : m <= v
GreatestOf(S) == CHOOSE m \in S : \A v \in S : m >= v

\* The bounding box of the aim points of a set of samples; the empty box
\* for no sample.
BoxOf(S) ==
    IF S = {} THEN Bounds2fDefault
    ELSE Bnd2(Pnt2(LeastOf({RearPoint(k).x : k \in S}), LeastOf({RearPoint(k).y : k \in S})),
              Pnt2(GreatestOf({RearPoint(k).x : k \in S}),
                   GreatestOf({RearPoint(k).y : k \in S})))

\* What bound_exit_pupil returns when every sample is traced, none being
\* passed for lying inside the bounds found so far.
EverySampleTraced ==
    IF Succeeding(NSamples) = {} THEN ProjRearBounds(element_interfaces)
    ELSE Bnd2Expand(BoxOf(Succeeding(NSamples)), SampleSpacing(element_interfaces))

\* C15: passing the samples that lie inside the bounds found so far without
\* tracing them does not change the result of bound_exit_pupil: at every
\* iteration pupil_bounds is the bounding box of exactly the aim points seen
\* so far whose trace from the film succeeds (the empty box at the start),
\* what is returned is what tracing every sample returns, and the running
\* bounds lie within the enlarged square of the rear element.
C15_ShortcutKeepsBounds ==
    pc = "bound_exit_pupil" =>
        /\ pupil.pupil_bounds = BoxOf(Succeeding(pupil.i))
        /\ pupil.status = "returned" => pupil.result = EverySampleTraced
        /\ pupil.pupil_bounds # Bounds2fDefault =>
               /\ pupil.pupil_bounds.p_min.x >= ProjRearBounds(element_interfaces).p_min.x
               /\ pupil.pupil_bounds.p_min.y >= ProjRearBounds(element_interfaces).p_min.y
               /\ pupil.pupil_bounds.p_max.x <= ProjRearBounds(element_interfaces).p_max.x
               /\ pupil.pupil_bounds.p_max.y <= ProjRearBounds(element_interfaces).p_max.y

\* bound_exit_pupil returned after passing, untraced, a sample that lay
\* inside the bounds found before it and whose trace from the film fails.
C15_PassedFailingSample ==
    /\ pc = "bound_exit_pupil"
    /\ pupil.status = "returned"
    /\ \E k \in 0..(NSamples - 1) :
           /\ Pnt2InsideBnd2(RearPoint(k), BoxOf(Succeeding(k)))
           /\ ~SampleSucceeds(k)

====
